---- MODULE Spec2Model ----
(***************************************************************************)
(* Model of gptme/init.py: the one-time bootstrap init(), the credential   *)
(* prompt ask_for_api_key() and the readline history set-up                *)
(* _load_readline_history(), together with the readline/atexit behaviour   *)
(* of CPython that these functions drive.                                  *)
(*                                                                         *)
(* A Python str is a TLA+ string; a `str | None` is the empty sequence     *)
(* for None and the one-element sequence << s >> for the str s, so that    *)
(* None differs from every str, the str 'None' included.  The line typed   *)
(* at the credential prompt is a sequence of characters, so that           *)
(* str.strip() and str.startswith() are computed character by character;   *)
(* Str() turns it into the str that is stored.  A str is kept in escaped   *)
(* form: a character that a TLA+ string cannot hold is written by its      *)
(* Python escape, e.g. "\\xa0", and the backslash by two backslashes, so    *)
(* that two strs are equal only when their characters are.  In a typed     *)
(* line the backslash is the one-character string.                         *)
(***************************************************************************)
EXTENDS Integers, Sequences, FiniteSets, TLC

VARIABLES
    _init_done,     \* module global _init_done
    config_store,   \* the persistent Config store (key -> value, None if absent)
    tty,            \* stdin/stdout are a terminal: input() goes through readline
    pc,             \* position of the process: in init(), idle, exited, killed
    calls,          \* number of calls to init() made so far
    args,           \* arguments of the running call to init()
    provider,       \* init()'s local `provider`
    model,          \* init()'s local `model`
    config,         \* init()'s local `config` = load_config()
    llm_provider,   \* provider handed to init_llm()
    default_model,  \* model handed to set_default_model()
    history,        \* readline's in-memory history list
    history_length, \* readline's history length (set_history_length)
    auto_history,   \* readline's auto-history switch (set_auto_history)
    file_exists,    \* the history file exists
    file_lines,     \* the lines of the history file
    file_writes,    \* number of times the history file was written
    atexit,         \* functions registered with atexit.register
    entered,        \* raw lines read by the credential prompt of init(), in order
    direct,         \* what the calls of ask_for_api_key() made from outside
                    \* init() read, in order: Some(line), None at end of input
    n_inputs,       \* number of new session lines typed after init()
    trace           \* the calls made by init(), in order, for the whole process

vars == << _init_done, config_store, tty, pc, calls, args, provider, model,
           config, llm_provider, default_model, history, history_length,
           auto_history, file_exists, file_lines, file_writes, atexit,
           entered, direct, n_inputs, trace >>

----------------------------------------------------------------------------
(* Bounds of the model *)

\* calls to init() in one process
MaxCalls == 2
\* new lines typed in a session under Spec
MaxInputs == 1
\* new lines typed in a session under SpecHistory
MaxSessionInputs == 103
\* lines of a short pre-existing history file
ShortFile == 2
\* lines of a long pre-existing history file
LongFile == 101
\* calls of ask_for_api_key() from outside init() in one process
MaxDirect == 1

(* Program constants *)

\* readline.set_history_length(100)
HistoryLength == 100

----------------------------------------------------------------------------
(* Values *)

\* Python's None, as a value of type `str | None`
None == << >>

\* the str s, as a value of type `str | None`
Some(s) == << s >>

\* the str held by a value of type `str | None` that is not None
Val(v) == v[1]

\* PROVIDERS
PROVIDERS == {"openai", "anthropic", "azure", "local"}

\* history_examples
history_examples ==
    << "What is love?",
       "Have you heard about an open-source app called ActivityWatch?",
       "Explain 'Attention is All You Need' in the style of Andrej Karpathy.",
       "Explain how public-key cryptography works as if I'm five.",
       "Write a Python script that prints the first 100 prime numbers.",
       "Find all TODOs in the current git project" >>

\* keys of the Config store that init.py reads or writes
ConfigKeys == {"env.PROVIDER", "env.MODEL", "env.OPENAI_API_KEY", "env.ANTHROPIC_API_KEY"}

\* Python truthiness of a `str | None`: `not provider`, `not model`, `x or y`
Truthy(v) == v # None /\ v # Some("")

\* config.get_env(key)
get_env(cfg, key) == cfg["env." \o key]

\* set_config_value(key, value)
set_config_value(store, key, value) == [store EXCEPT ![key] = Some(value)]

\* the string made of the characters of a typed line
RECURSIVE Str(_)
Str(chars) ==
    IF chars = << >> THEN ""
    ELSE (IF Head(chars) = "\\" THEN "\\\\" ELSE Head(chars)) \o Str(Tail(chars))

\* the characters str.strip() removes: those for which str.isspace() is true
Whitespace ==
    { "\t", "\n", "\\x0b", "\f", "\r", "\\x1c", "\\x1d", "\\x1e", "\\x1f", " ",
      "\\x85", "\\xa0", "\\u1680", "\\u2000", "\\u2001", "\\u2002", "\\u2003",
      "\\u2004", "\\u2005", "\\u2006", "\\u2007", "\\u2008", "\\u2009", "\\u200a",
      "\\u2028", "\\u2029", "\\u202f", "\\u205f", "\\u3000" }

RECURSIVE lstrip(_)
lstrip(s) == IF s # << >> /\ Head(s) \in Whitespace THEN lstrip(Tail(s)) ELSE s

RECURSIVE rstrip(_)
rstrip(s) ==
    IF s # << >> /\ s[Len(s)] \in Whitespace THEN rstrip(SubSeq(s, 1, Len(s) - 1)) ELSE s

\* str.strip()
strip(s) == rstrip(lstrip(s))

\* str.startswith(prefix)
startswith(s, prefix) == Len(s) >= Len(prefix) /\ SubSeq(s, 1, Len(prefix)) = prefix

\* the literal "sk-ant-"
AnthropicPrefix == << "s", "k", "-", "a", "n", "t", "-" >>

\* the last n entries of a sequence
LastN(s, n) == IF Len(s) <= n THEN s ELSE SubSeq(s, Len(s) - n + 1, Len(s))

\* s holds x
Contains(s, x) == \E i \in 1..Len(s) : s[i] = x

----------------------------------------------------------------------------
(* readline and input() *)

\* input() with readline imported: on a terminal the typed line is added to the
\* history when auto-history is on, the line is not empty and it differs from
\* the last entry
input_history(h, line) ==
    IF tty /\ auto_history /\ line # "" /\ (h = << >> \/ h[Len(h)] # line)
    THEN Append(h, line)
    ELSE h

Digits == {"0", "1", "2", "3", "4", "5", "6", "7", "8", "9"}

\* a line of the history file without the carriage return that ends it
chomp(l) ==
    IF l # "" /\ SubSeq(l, Len(l), Len(l)) = "\r" THEN SubSeq(l, 1, Len(l) - 1) ELSE l

\* a line that begins with '#' and a digit: a timestamp, in a file that
\* begins with one
is_timestamp(l) == Len(l) >= 2 /\ Head(l) = "#" /\ SubSeq(l, 2, 2) \in Digits

\* readline.read_history_file: the lines of the file are appended to the
\* history, each without the carriage return that ends it; an empty line is
\* left out, and so is every timestamp when the file begins with one
read_history_file(h, lines) ==
    LET timestamps == lines # << >> /\ is_timestamp(lines[1])
        entries == [i \in 1..Len(lines) |-> chomp(lines[i])]
    IN h \o SelectSeq(entries, LAMBDA l : l # "" /\ ~(timestamps /\ is_timestamp(l)))

\* the lines an entry of the history is written as: one, and one more for
\* each newline the entry holds
RECURSIVE split_lines(_)
split_lines(s) ==
    LET newlines == {i \in 1..Len(s) : SubSeq(s, i, i) = "\n"}
        first == CHOOSE i \in newlines : \A j \in newlines : i <= j
    IN IF newlines = {} THEN << s >>
       ELSE << SubSeq(s, 1, first - 1) >> \o split_lines(SubSeq(s, first + 1, Len(s)))

\* the lines the history is written as, entry after entry (the lines of its
\* first half, then those of its second half)
RECURSIVE history_lines(_)
history_lines(h) ==
    IF h = << >> THEN << >>
    ELSE IF Len(h) = 1 THEN split_lines(h[1])
    ELSE history_lines(SubSeq(h, 1, Len(h) \div 2))
         \o history_lines(SubSeq(h, Len(h) \div 2 + 1, Len(h)))

\* the truncation of the written file takes place: a limit is set and the
\* file holds more lines than it.  The search for the start of the last
\* `length` lines runs backwards and stops before the first byte of the file,
\* so a newline there is not found: a file of length + 1 lines whose first
\* line is empty is left as it is
truncates(lines, length) ==
    /\ length >= 0
    /\ Len(lines) > length
    /\ ~(Len(lines) = length + 1 /\ lines[1] = "")

\* write_history_file without the truncation of the file
write_history_file_untruncated(h, length) == history_lines(h)

\* write_history_file with a truncation that keeps the oldest lines
write_history_file_head(h, length) ==
    IF truncates(history_lines(h), length)
    THEN SubSeq(history_lines(h), 1, length)
    ELSE history_lines(h)

\* readline.write_history_file: the history is written line by line and the
\* file is then truncated to its last history_length lines (no truncation
\* when the length is negative, none when the file holds history_length + 1
\* lines and begins with an empty one)
write_history_file(h, length) ==
    IF truncates(history_lines(h), length)
    THEN LastN(history_lines(h), length)
    ELSE history_lines(h)

----------------------------------------------------------------------------
(* ask_for_api_key *)

\* classify with no provider for an empty key
classify_nonempty(api_key) ==
    IF api_key = << >> THEN ""
    ELSE IF startswith(api_key, AnthropicPrefix) THEN "anthropic" ELSE "openai"

\* classify with the prefix "sk-ant", its last dash forgotten
classify_short_prefix(api_key) ==
    IF startswith(api_key, << "s", "k", "-", "a", "n", "t" >>) THEN "anthropic" ELSE "openai"

\* the provider the prompt classifies a stripped key as
classify(api_key) == IF startswith(api_key, AnthropicPrefix) THEN "anthropic" ELSE "openai"

\* the env_var the prompt picks for a stripped key
env_var_of(api_key) ==
    IF startswith(api_key, AnthropicPrefix) THEN "ANTHROPIC_API_KEY" ELSE "OPENAI_API_KEY"

\* the key with only its leading whitespace removed
api_key_of_lstrip(line) == lstrip(line)

\* the key read from a typed line
api_key_of(line) == strip(line)

----------------------------------------------------------------------------
(* init: provider and model resolution *)

\* `if not provider: provider = config.get_env("PROVIDER")`
from_config(p, cfg) == IF ~Truthy(p) THEN get_env(cfg, "PROVIDER") ELSE p

\* auto_detect with the Anthropic credential looked up first
auto_detect_anthropic_first(p, cfg) ==
    IF Truthy(get_env(cfg, "ANTHROPIC_API_KEY")) THEN Some("anthropic")
    ELSE IF Truthy(get_env(cfg, "OPENAI_API_KEY")) THEN Some("openai")
    ELSE p

\* the auto-detection branches
auto_detect(p, cfg) ==
    IF Truthy(get_env(cfg, "OPENAI_API_KEY")) THEN Some("openai")
    ELSE IF Truthy(get_env(cfg, "ANTHROPIC_API_KEY")) THEN Some("anthropic")
    ELSE p

\* the prompt taken before the stored credentials are looked up
asks_user_before_detect(p, cfg, interactive) == ~Truthy(p) /\ interactive

\* the prompt taken without the test of `interactive`
asks_user_noninteractive(p, cfg, interactive) ==
    /\ ~Truthy(p)
    /\ ~Truthy(get_env(cfg, "OPENAI_API_KEY"))
    /\ ~Truthy(get_env(cfg, "ANTHROPIC_API_KEY"))

\* the `elif interactive` branch is reached
asks_user(p, cfg, interactive) ==
    /\ ~Truthy(p)
    /\ ~Truthy(get_env(cfg, "OPENAI_API_KEY"))
    /\ ~Truthy(get_env(cfg, "ANTHROPIC_API_KEY"))
    /\ interactive

\* get_recommended_model(): the built-in default of the provider p that
\* init_llm has set up
get_recommended_model(p) == "recommended-" \o p

\* select_model with the config MODEL looked up before the argument
select_model_config_first(m, cfg, p) ==
    IF Truthy(get_env(cfg, "MODEL")) THEN get_env(cfg, "MODEL")
    ELSE IF Truthy(m) THEN m
    ELSE Some(get_recommended_model(Val(p)))

\* `if not model: model = config.get_env("MODEL") or get_recommended_model()`
select_model(m, cfg, p) ==
    IF ~Truthy(m)
    THEN IF Truthy(get_env(cfg, "MODEL")) THEN get_env(cfg, "MODEL")
         ELSE Some(get_recommended_model(Val(p)))
    ELSE m

\* the flag assigned to a local: `global _init_done` forgotten
flag_after_entry_local(done) == done

\* `_init_done = True`: the flag once init() has passed the early return
flag_after_entry(done) == TRUE

\* the early return forgotten
already_done_never(done) == FALSE

\* `if _init_done:` the guard of the early return
already_done(done) == done

\* the raise forgotten
no_provider_never(p) == FALSE

\* `if not provider:` the guard of the raise
no_provider(p) == ~Truthy(p)

\* the statements of init() with the history loaded before init_llm
next_pc_history_first(cur, interactive) ==
    CASE cur = "resolve" -> "check"
      [] cur = "prompt" -> "check"
      [] cur = "check" -> (IF interactive THEN "history" ELSE "init_llm")
      [] cur = "history" -> "tabcomplete"
      [] cur = "tabcomplete" -> "init_llm"
      [] cur = "init_llm" -> "model"
      [] cur = "model" -> "tools"
      [] OTHER -> "idle"

\* the statements of init() with the tab-completion registered before the
\* history is loaded
next_pc_tabcomplete_first(cur, interactive) ==
    CASE cur = "resolve" -> "check"
      [] cur = "prompt" -> "check"
      [] cur = "check" -> "init_llm"
      [] cur = "init_llm" -> "model"
      [] cur = "model" -> (IF interactive THEN "tabcomplete" ELSE "tools")
      [] cur = "tabcomplete" -> "history"
      [] cur = "history" -> "tools"
      [] OTHER -> "idle"

\* the order of the statements of init() once the provider is resolved: the
\* statement that follows statement `cur`
next_pc(cur, interactive) ==
    CASE cur = "resolve" -> "check"
      [] cur = "prompt" -> "check"
      [] cur = "check" -> "init_llm"
      [] cur = "init_llm" -> "model"
      [] cur = "model" -> (IF interactive THEN "history" ELSE "tools")
      [] cur = "history" -> "tabcomplete"
      [] cur = "tabcomplete" -> "tools"
      [] OTHER -> "idle"

----------------------------------------------------------------------------
(* Inputs *)

\* the values of type `str | None` an input takes: None, the empty str and
\* the strs of S
Optional(S) == {None, Some("")} \cup {Some(x) : x \in S}

\* the arguments init() is called with
AllArgs ==
    [provider : Optional({"anthropic", "azure"}),
     model : Optional({"gpt-4"}),
     interactive : BOOLEAN]

\* the arguments of a plain start of the program
PlainArgs == [provider : {None}, model : {None}, interactive : BOOLEAN]

NoArgs == [provider |-> None, model |-> None, interactive |-> FALSE]

NoConfig == [k \in ConfigKeys |-> None]

\* the lines typed at a credential prompt called from outside init()
DirectLines ==
    { << "s", "k", "-", "o" >>,
      << " ", "s", "k", "-", "a", "n", "t", "-", "a", " " >> }

\* the lines typed at the credential prompt of init()
InputLines ==
    DirectLines \cup
    { << >>,
      << " ", "\\x0b" >>,
      << "\\", "x", "0", "b" >>,
      << "s", "k", "-", "a", "n", "t" >>,
      << "s", "k", "-", "a", "n", "t", "-" >>,
      << "\f", "s", "k", "-", "a", "n", "t", "-", "a", "\\xa0" >>,
      << "x", "s", "k", "-", "a", "n", "t", "-" >>,
      << "\n", "s", "k", "-", "o" >> }

\* the i-th line of a pre-existing history file
FileLine(i) == "old" \o ToString(i)
OldFile(n) == [i \in 1..n |-> FileLine(i)]

\* a pre-existing history file of n entries that begins with a timestamp:
\* its first entry ends with a carriage return and an empty line follows it
SparseFile(n) ==
    << "#1700000000", FileLine(1) \o "\r", "" >> \o [i \in 1..(n - 1) |-> FileLine(i + 1)]

\* a pre-existing history file of n lines and a last line that begins with
\* '#' and a digit
NotedFile(n) == OldFile(n) \o << "#1 fix this" >>

\* the new lines of the session that hold a newline (typed with Ctrl-V
\* Ctrl-J) and end with a carriage return (Ctrl-V Ctrl-M)
MultilineInputs == {1, 103}

\* the n-th new line typed in the session
InputText(n) ==
    IF n \in MultilineInputs
    THEN "in" \o ToString(n) \o "\nmore\r"
    ELSE "in" \o ToString(n)

\* the Config stores a process may start with; 'None' is the str of four
\* letters, not None
Stores ==
    { [k \in ConfigKeys |->
          CASE k = "env.PROVIDER" -> p
            [] k = "env.MODEL" -> m
            [] k = "env.OPENAI_API_KEY" -> o
            [] OTHER -> a] :
      p \in Optional({"openai", "gemini", "None"}),
      m \in Optional({"llama"}),
      o \in {None, Some("sk-o")},
      a \in {None, Some("sk-ant-b")} }

----------------------------------------------------------------------------
(* Initial states *)

InitWith(stores, files) ==
    /\ _init_done = FALSE
    /\ config_store \in stores
    /\ tty \in BOOLEAN
    /\ pc = "idle"
    /\ calls = 0
    /\ args = NoArgs
    /\ provider = None
    /\ model = None
    /\ config = NoConfig
    /\ llm_provider = None
    /\ default_model = None
    /\ history = << >>
    /\ history_length = -1
    /\ auto_history = TRUE
    /\ file_exists \in BOOLEAN
    /\ file_lines \in (IF file_exists THEN files ELSE {<< >>})
    /\ file_writes = 0
    /\ atexit = << >>
    /\ entered = << >>
    /\ direct = << >>
    /\ n_inputs = 0
    /\ trace = << >>

Init == InitWith(Stores, {SparseFile(ShortFile)})

HistInit ==
    InitWith({NoConfig}, {NotedFile(ShortFile), OldFile(HistoryLength), OldFile(LongFile)})

----------------------------------------------------------------------------
(* init() *)

\* the locals of init() are gone once the call is over
Return ==
    /\ pc' = "idle"
    /\ args' = NoArgs
    /\ provider' = None
    /\ model' = None
    /\ config' = NoConfig

\* init() called again: warn and return
InitAgain ==
    /\ pc = "idle"
    /\ calls < MaxCalls
    /\ already_done(_init_done)
    /\ calls' = calls + 1
    /\ trace' = Append(trace, "warning")
    /\ UNCHANGED << _init_done, config_store, tty, pc, args, provider, model, config,
                    llm_provider, default_model, history, history_length,
                    auto_history, file_exists, file_lines, file_writes, atexit,
                    entered, direct, n_inputs >>

\* init() called: set the flag, load the config
InitCall(argset) ==
    /\ pc = "idle"
    /\ calls < MaxCalls
    /\ ~already_done(_init_done)
    /\ \E a \in argset :
          /\ args' = a
          /\ provider' = a.provider
          /\ model' = a.model
    /\ _init_done' = flag_after_entry(_init_done)
    /\ config' = config_store
    /\ calls' = calls + 1
    /\ pc' = "resolve"
    /\ trace' = trace \o << "_init_done", "load_config" >>
    /\ UNCHANGED << config_store, tty, llm_provider, default_model, history,
                    history_length, auto_history, file_exists, file_lines,
                    file_writes, atexit, entered, direct, n_inputs >>

\* the provider from the config, then from the stored credentials
ResolveProvider ==
    /\ pc = "resolve"
    /\ LET p == from_config(provider, config) IN
          IF Truthy(p)
          THEN provider' = p /\ pc' = next_pc("resolve", args.interactive)
          ELSE IF asks_user(p, config, args.interactive)
               THEN provider' = p /\ pc' = "prompt"
               ELSE /\ provider' = auto_detect(p, config)
                    /\ pc' = next_pc("resolve", args.interactive)
    /\ UNCHANGED << _init_done, config_store, tty, calls, args, model, config,
                    llm_provider, default_model, history, history_length,
                    auto_history, file_exists, file_lines, file_writes, atexit,
                    entered, direct, n_inputs, trace >>

\* ask_for_api_key() at the end of the input: input() raises EOFError, which
\* leaves init()
AskForApiKeyEof ==
    /\ pc = "prompt"
    /\ Return
    /\ trace' = trace \o << "ask_for_api_key", "EOFError" >>
    /\ UNCHANGED << _init_done, config_store, tty, calls, llm_provider,
                    default_model, history, history_length, auto_history,
                    file_exists, file_lines, file_writes, atexit, entered, direct,
                    n_inputs >>

\* ask_for_api_key() called from outside init(), between the calls to init():
\* it reads one line and saves it to the Config, or raises EOFError at the end
\* of the input
AskForApiKeyDirect ==
    /\ pc = "idle"
    /\ Len(direct) < MaxDirect
    /\ \/ \E line \in DirectLines :
              LET api_key == api_key_of(line) IN
              /\ history' = input_history(history, Str(line))
              /\ config_store' =
                    set_config_value(config_store, "env." \o env_var_of(api_key), Str(api_key))
              /\ direct' = Append(direct, Some(line))
       \/ /\ direct' = Append(direct, None)
          /\ UNCHANGED << history, config_store >>
    /\ UNCHANGED << _init_done, tty, pc, calls, args, provider, model, config,
                    llm_provider, default_model, history_length, auto_history,
                    file_exists, file_lines, file_writes, atexit, entered, n_inputs,
                    trace >>

\* ask_for_api_key(): read one line, classify it, save it to the Config
AskForApiKey ==
    /\ pc = "prompt"
    /\ \E line \in InputLines :
          LET api_key == api_key_of(line) IN
          /\ history' = input_history(history, Str(line))
          /\ entered' = Append(entered, line)
          /\ config_store' =
                set_config_value(config_store, "env." \o env_var_of(api_key), Str(api_key))
          /\ provider' = Some(classify(api_key))
    /\ pc' = next_pc("prompt", args.interactive)
    /\ trace' = trace \o << "ask_for_api_key", "set_config_value" >>
    /\ UNCHANGED << _init_done, tty, calls, args, model, config, llm_provider,
                    default_model, history_length, auto_history, file_exists,
                    file_lines, file_writes, atexit, direct, n_inputs >>

\* `if not provider: raise ValueError(...)`
RaiseNoProvider ==
    /\ pc = "check"
    /\ no_provider(provider)
    /\ Return
    /\ trace' = Append(trace, "ValueError")
    /\ UNCHANGED << _init_done, config_store, tty, calls, llm_provider,
                    default_model, history, history_length, auto_history,
                    file_exists, file_lines, file_writes, atexit, entered, direct, n_inputs >>

\* a provider was resolved: init() goes on
ProviderFound ==
    /\ pc = "check"
    /\ ~no_provider(provider)
    /\ pc' = next_pc("check", args.interactive)
    /\ UNCHANGED << _init_done, config_store, tty, calls, args, provider, model,
                    config, llm_provider, default_model, history, history_length,
                    auto_history, file_exists, file_lines, file_writes, atexit,
                    entered, direct, n_inputs, trace >>

\* init_llm(provider)
InitLlm ==
    /\ pc = "init_llm"
    /\ llm_provider' = provider
    /\ pc' = next_pc("init_llm", args.interactive)
    /\ trace' = Append(trace, "init_llm")
    /\ UNCHANGED << _init_done, config_store, tty, calls, args, provider, model,
                    config, default_model, history, history_length, auto_history,
                    file_exists, file_lines, file_writes, atexit, entered, direct, n_inputs >>

\* model selection and set_default_model(model)
SetDefaultModel ==
    /\ pc = "model"
    /\ model' = select_model(model, config, llm_provider)
    /\ default_model' = model'
    /\ pc' = next_pc("model", args.interactive)
    /\ trace' = Append(trace, "set_default_model")
    /\ UNCHANGED << _init_done, config_store, tty, calls, args, provider, config,
                    llm_provider, history, history_length, auto_history,
                    file_exists, file_lines, file_writes, atexit, entered, direct, n_inputs >>

\* _load_readline_history() with the atexit registration forgotten
LoadReadlineHistoryUnregistered ==
    /\ pc = "history"
    /\ auto_history' = TRUE
    /\ history_length' = HistoryLength
    /\ history' = IF file_exists
                  THEN read_history_file(history, file_lines)
                  ELSE history \o history_examples
    /\ pc' = next_pc("history", args.interactive)
    /\ trace' = Append(trace, "_load_readline_history")
    /\ UNCHANGED << _init_done, config_store, tty, calls, args, provider, model,
                    config, llm_provider, default_model, file_exists, file_lines,
                    file_writes, atexit, entered, direct, n_inputs >>

\* _load_readline_history()
LoadReadlineHistory ==
    /\ pc = "history"
    /\ auto_history' = TRUE
    /\ history_length' = HistoryLength
    /\ history' = IF file_exists
                  THEN read_history_file(history, file_lines)
                  ELSE history \o history_examples
    /\ atexit' = Append(atexit, "write_history_file")
    /\ pc' = next_pc("history", args.interactive)
    /\ trace' = Append(trace, "_load_readline_history")
    /\ UNCHANGED << _init_done, config_store, tty, calls, args, provider, model,
                    config, llm_provider, default_model, file_exists, file_lines,
                    file_writes, entered, direct, n_inputs >>

\* register_tabcomplete()
RegisterTabcomplete ==
    /\ pc = "tabcomplete"
    /\ pc' = next_pc("tabcomplete", args.interactive)
    /\ trace' = Append(trace, "register_tabcomplete")
    /\ UNCHANGED << _init_done, config_store, tty, calls, args, provider, model,
                    config, llm_provider, default_model, history, history_length,
                    auto_history, file_exists, file_lines, file_writes, atexit,
                    entered, direct, n_inputs >>

\* init_tools(), and init() returns
InitTools ==
    /\ pc = "tools"
    /\ Return
    /\ trace' = Append(trace, "init_tools")
    /\ UNCHANGED << _init_done, config_store, tty, calls, llm_provider,
                    default_model, history, history_length, auto_history,
                    file_exists, file_lines, file_writes, atexit, entered, direct, n_inputs >>

----------------------------------------------------------------------------
(* The session and the end of the process *)

\* an interactive init() has returned
SessionRunning ==
    /\ pc = "idle"
    /\ Contains(trace, "_load_readline_history")
    /\ Contains(trace, "init_tools")

\* the user types a line at an input() of the session: a new line, the last
\* line again, or an empty line
UserInput(limit) ==
    /\ SessionRunning
    /\ \E kind \in {"new", "repeat", "empty"} :
          LET line == CASE kind = "new" -> InputText(n_inputs + 1)
                        [] kind = "repeat" ->
                             IF history = << >> THEN "" ELSE history[Len(history)]
                        [] OTHER -> ""
          IN /\ kind = "new" => n_inputs < limit
             /\ history' = input_history(history, line)
             /\ n_inputs' = IF kind = "new" THEN n_inputs + 1 ELSE n_inputs
    /\ UNCHANGED << _init_done, config_store, tty, pc, calls, args, provider, model,
                    config, llm_provider, default_model, history_length,
                    auto_history, file_exists, file_lines, file_writes, atexit,
                    entered, direct, trace >>

\* normal exit of the process: the atexit functions run
Exit ==
    /\ pc = "idle"
    /\ pc' = "exited"
    /\ IF atexit # << >>
       THEN /\ file_exists' = TRUE
            /\ file_lines' = write_history_file(history, history_length)
            /\ file_writes' = file_writes + Len(atexit)
       ELSE UNCHANGED << file_exists, file_lines, file_writes >>
    /\ UNCHANGED << _init_done, config_store, tty, calls, args, provider, model,
                    config, llm_provider, default_model, history, history_length,
                    auto_history, atexit, entered, direct, n_inputs, trace >>

\* the process is killed: nothing runs
Kill ==
    /\ pc \notin {"exited", "killed"}
    /\ pc' = "killed"
    /\ UNCHANGED << _init_done, config_store, tty, calls, args, provider, model,
                    config, llm_provider, default_model, history, history_length,
                    auto_history, file_exists, file_lines, file_writes, atexit,
                    entered, direct, n_inputs, trace >>

----------------------------------------------------------------------------
(* Specifications *)

Steps ==
    \/ InitAgain
    \/ ResolveProvider
    \/ AskForApiKey
    \/ AskForApiKeyEof
    \/ RaiseNoProvider
    \/ ProviderFound
    \/ InitLlm
    \/ SetDefaultModel
    \/ LoadReadlineHistory
    \/ RegisterTabcomplete
    \/ InitTools
    \/ Exit
    \/ Kill

Next == Steps \/ InitCall(AllArgs) \/ UserInput(MaxInputs) \/ AskForApiKeyDirect

Spec == Init /\ [][Next]_vars

NextHistory == Steps \/ InitCall(PlainArgs) \/ UserInput(MaxSessionInputs)

SpecHistory == HistInit /\ [][NextHistory]_vars

\* the steps of a running call to init() that wait for nothing
Statement ==
    \/ ResolveProvider
    \/ RaiseNoProvider
    \/ ProviderFound
    \/ InitLlm
    \/ SetDefaultModel
    \/ LoadReadlineHistory
    \/ RegisterTabcomplete
    \/ InitTools

\* the Config stores of the processes whose termination is checked: every
\* way a provider is or is not resolved
LiveStores ==
    {st \in Stores : st["env.MODEL"] = None /\ st["env.PROVIDER"] \in {None, Some("gemini")}}

LiveInit == InitWith(LiveStores, {SparseFile(ShortFile)})

\* the processes whose exit is checked start with a short history file, with
\* one a line short of the limit, or with one longer than the limit
ExitInit ==
    InitWith(LiveStores,
             {SparseFile(ShortFile), OldFile(HistoryLength - 1), OldFile(LongFile)})

SpecExit == ExitInit /\ [][Next]_vars

\* init() runs its statements one after the other, and a line of input
\* becomes available at the prompt
SpecLive == LiveInit /\ [][Next]_vars /\ WF_vars(Statement) /\ WF_vars(AskForApiKey)

----------------------------------------------------------------------------
(* Properties *)

Last(s) == s[Len(s)]

\* the position of event e in the trace
IndexOf(e) == CHOOSE i \in 1..Len(trace) : trace[i] = e

\* init() is running and has resolved its provider
Resolved == pc \in {"check", "init_llm", "model", "history", "tabcomplete", "tools"}

\* a call to init() is running
InCall == pc \in {"resolve", "prompt", "check", "init_llm", "model", "history",
                  "tabcomplete", "tools"}

\* init_llm has been called in the running call
AfterLlm == pc \in {"model", "history", "tabcomplete", "tools"}

\* the key the prompt of init() took from the line it read
PromptKey == api_key_of(Last(entered))

\* C1: once the init flag is true, a further call to init() only emits a
\* warning and returns: Config, the in-memory history, the history file, the
\* exit actions, the resolved provider, the default model and the flag stay as
\* they are and no step of the bootstrap is taken.
C1_RepeatedInitIsNoOp ==
    [][ (_init_done /\ calls' = calls + 1) =>
          /\ trace' = Append(trace, "warning")
          /\ pc' = "idle"
          /\ UNCHANGED << _init_done, config_store, history, history_length,
                          auto_history, file_exists, file_lines, file_writes,
                          atexit, llm_provider, default_model, entered >> ]_vars

C1_Witness ==
    /\ calls >= 2
    /\ Last(trace) = "warning"
    /\ Contains(trace, "init_tools")
    /\ atexit # << >>

\* C2: the provider init() resolves is the explicit argument if supplied, else
\* the config PROVIDER if non-empty, else openai if an OpenAI credential is
\* stored, else anthropic if an Anthropic credential is stored, else, when
\* interactive, the provider the prompt returned; else init fails.
C2_Determined ==
    \/ Truthy(args.provider)
    \/ Truthy(config["env.PROVIDER"])
    \/ Truthy(config["env.OPENAI_API_KEY"])
    \/ Truthy(config["env.ANTHROPIC_API_KEY"])
    \/ args.interactive

C2_Expected ==
    IF Truthy(args.provider) THEN args.provider
    ELSE IF Truthy(config["env.PROVIDER"]) THEN config["env.PROVIDER"]
    ELSE IF Truthy(config["env.OPENAI_API_KEY"]) THEN Some("openai")
    ELSE IF Truthy(config["env.ANTHROPIC_API_KEY"]) THEN Some("anthropic")
    ELSE IF entered # << >> THEN Some(classify(PromptKey))
    ELSE None

C2_ProviderPrecedence ==
    /\ (Resolved /\ C2_Determined) => (provider = C2_Expected /\ Truthy(provider))
    /\ (Resolved /\ ~C2_Determined) =>
          (pc = "check" /\ ~Truthy(provider) /\ ENABLED RaiseNoProvider
           /\ ~ENABLED ProviderFound)
    /\ AfterLlm => llm_provider = C2_Expected

C2_Witness ==
    /\ AfterLlm
    /\ args.provider = Some("anthropic")
    /\ config["env.PROVIDER"] = Some("openai")
    /\ config["env.OPENAI_API_KEY"] = Some("sk-o")
    /\ llm_provider = Some("anthropic")

\* C3: the credential the user entered at the prompt is never an entry of the
\* in-memory history and never a line of the history file written at exit.
\* (A blank line holds no credential; a credential typed with blanks around it
\* is looked for as typed and as stored.)
C3_CredentialNotInHistory ==
    \A i \in 1..Len(entered) :
        LET raw == Str(entered[i])
            key == Str(api_key_of(entered[i]))
        IN key # "" =>
              /\ ~Contains(history, raw)
              /\ ~Contains(history, key)
              /\ file_writes > 0 =>
                    (~Contains(file_lines, raw) /\ ~Contains(file_lines, key))

\* C4: in an interactive run the prompt's write to Config (when the prompt is
\* taken) and init_llm are both over before the history is initialized.
C4_CredentialsBeforeHistory ==
    /\ pc = "history" =>
          /\ Contains(trace, "init_llm")
          /\ llm_provider = provider
          /\ entered # << >> =>
                /\ Contains(trace, "set_config_value")
                /\ config_store["env." \o env_var_of(PromptKey)] = Some(Str(PromptKey))
    /\ Contains(trace, "_load_readline_history") =>
          /\ Contains(trace, "init_llm")
          /\ IndexOf("init_llm") < IndexOf("_load_readline_history")
          /\ Contains(trace, "set_config_value") =>
                IndexOf("set_config_value") < IndexOf("_load_readline_history")

C4_Witness ==
    /\ Contains(trace, "_load_readline_history")
    /\ Contains(trace, "set_config_value")
    /\ pc = "tabcomplete"

\* C5: init() with no explicit provider, no config PROVIDER, no stored
\* credential and interactive=false raises the configuration error, without
\* credential setup, model selection, history initialization, tab-completion
\* or tool initialization, and leaves Config and the history unchanged.
C5_NothingToResolve ==
    /\ pc \in {"resolve", "check"}
    /\ ~Truthy(args.provider)
    /\ ~Truthy(config["env.PROVIDER"])
    /\ ~Truthy(config["env.OPENAI_API_KEY"])
    /\ ~Truthy(config["env.ANTHROPIC_API_KEY"])
    /\ ~args.interactive

C5_FailsWithoutSideEffects ==
    [][ C5_NothingToResolve =>
          \/ pc' = "killed"
          \/ /\ pc = "resolve" => (pc' = "check" /\ trace' = trace)
             /\ pc = "check" => (pc' = "idle" /\ trace' = Append(trace, "ValueError"))
             /\ UNCHANGED << config_store, history, history_length, auto_history,
                             file_exists, file_lines, file_writes, atexit,
                             llm_provider, default_model >> ]_vars

C5_Witness ==
    /\ trace = << "_init_done", "load_config", "ValueError" >>
    /\ pc = "idle"
    /\ llm_provider = None
    /\ default_model = None

\* C6: InitState is false until some call to init() has completed
\* successfully, and once true it never becomes false again.  (Stated for the
\* states between calls, where a caller can observe the flag; the trace
\* records that the flag was set.)
C6_FlagFalseUntilSuccess ==
    /\ (pc = "idle" /\ _init_done) => Contains(trace, "init_tools")
    /\ Contains(trace, "_init_done") => _init_done

\* C7 (as stated): after the history is initialized the in-memory history
\* holds at most 100 entries and the file written at exit at most 100 lines.
C7_HistoryAtMost100 ==
    Contains(trace, "_load_readline_history") =>
        /\ Len(history) <= HistoryLength
        /\ file_writes > 0 => Len(file_lines) <= HistoryLength

\* the new lines k..n typed in the session, oldest first
Inputs(k, n) == [i \in 1..(n - k + 1) |-> InputText(k + i - 1)]

\* the entry input() recorded at the prompt of init(): the line as typed
C7_Typed ==
    IF tty /\ entered # << >> /\ entered[1] # << >>
    THEN << Str(entered[1]) >>
    ELSE << >>

\* the entries _load_readline_history() loaded, read off the file the
\* process started with
C7_Loaded ==
    IF file_exists THEN read_history_file(<< >>, file_lines) ELSE history_examples

\* the entries input() recorded in the session
C7_Recorded == IF tty THEN Inputs(1, n_inputs) ELSE << >>

\* C7 (amended): the history file written at exit holds at most 101 lines: at
\* most 100, except that it holds 101 exactly when 101 lines were written and
\* the first of them is empty (the truncation is then left out); the
\* in-memory history is not capped: once loaded it holds every entry typed at
\* the prompt, loaded from the file or recorded in the session, and nothing
\* else.
C7_FileAtMost101 ==
    /\ file_writes > 0 =>
          LET written == history_lines(history)
          IN /\ Len(file_lines) <= HistoryLength + 1
             /\ Len(file_lines) = HistoryLength + 1 <=>
                    (Len(written) = HistoryLength + 1 /\ written[1] = "")
    /\ Contains(trace, "_load_readline_history") =>
          /\ Len(history) >= Len(C7_Typed) + Len(C7_Recorded)
          /\ file_writes = 0 => history = C7_Typed \o C7_Loaded \o C7_Recorded

C7_Witness ==
    /\ file_writes > 0
    /\ tty
    /\ n_inputs > 0
    /\ Len(file_lines) = HistoryLength + 1
    /\ file_lines[1] = ""
    /\ file_lines[HistoryLength + 1] = InputText(n_inputs)

\* C8 (as stated): after recording n > 100 sequential entries the retained
\* history is exactly the 100 most recent ones, in their order.
C8_RetainsLast100 ==
    (tty /\ n_inputs > HistoryLength) =>
        history = Inputs(n_inputs - HistoryLength + 1, n_inputs)

\* C8 (amended): after recording n > 100 sequential entries the in-memory
\* history retains all n of them, in their order, and the history file
\* written at exit holds exactly the last 100 lines of those entries, an
\* entry that holds a newline being written as several lines; when none of
\* the 100 most recent entries holds a newline these lines are exactly the 100
\* most recent entries, in their order.  What the file leaves out is older:
\* the file is the tail of the lines of the in-memory history.
C8_FileHoldsLast100 ==
    (tty /\ n_inputs > HistoryLength) =>
        /\ Len(history) >= n_inputs
        /\ LastN(history, n_inputs) = Inputs(1, n_inputs)
        /\ file_writes > 0 =>
              /\ file_lines = LastN(history_lines(Inputs(1, n_inputs)), HistoryLength)
              /\ ((n_inputs - HistoryLength + 1)..n_inputs) \cap MultilineInputs = {} =>
                    file_lines = Inputs(n_inputs - HistoryLength + 1, n_inputs)
              /\ LET written == history_lines(history)
                     k == Len(written) - Len(file_lines)
                 IN k >= 0 /\ file_lines = SubSeq(written, k + 1, Len(written))

C8_Witness ==
    /\ file_writes > 0
    /\ tty
    /\ n_inputs = HistoryLength + 3
    /\ Len(history) > HistoryLength
    /\ file_lines[1] = InputText(5)
    /\ file_lines[HistoryLength - 1] = "in103"
    /\ file_lines[HistoryLength] = "more\r"

\* what the prompt did for a key classified by `anthropic`: the provider it
\* returned and the one Config key it wrote
C9_PromptDid(anthropic, key) ==
    IF anthropic
    THEN /\ provider = Some("anthropic")
         /\ config_store["env.ANTHROPIC_API_KEY"] = Some(Str(key))
         /\ config_store["env.OPENAI_API_KEY"] = config["env.OPENAI_API_KEY"]
    ELSE /\ provider = Some("openai")
         /\ config_store["env.OPENAI_API_KEY"] = Some(Str(key))
         /\ config_store["env.ANTHROPIC_API_KEY"] = config["env.ANTHROPIC_API_KEY"]

\* C9 (as stated): the prompt classifies as anthropic exactly when the input
\* line starts with "sk-ant-", and as openai otherwise; it writes the
\* credential under that provider's key only and returns that provider.
C9_ClassifiesInputLine ==
    (pc = "check" /\ entered # << >>) =>
        C9_PromptDid(startswith(Last(entered), AnthropicPrefix), PromptKey)

\* C9 (amended): the prompt classifies as anthropic exactly when the input
\* line, stripped of leading and trailing whitespace (every character for
\* which str.isspace() is true), starts with "sk-ant-".
C9_ClassifiesStrippedLine ==
    (pc = "check" /\ entered # << >>) =>
        C9_PromptDid(startswith(strip(Last(entered)), AnthropicPrefix), PromptKey)

C9_Witness ==
    /\ pc = "check"
    /\ entered = << << "\f", "s", "k", "-", "a", "n", "t", "-", "a", "\\xa0" >> >>
    /\ provider = Some("anthropic")
    /\ config_store["env.ANTHROPIC_API_KEY"] = Some("sk-ant-a")
    /\ config_store["env.OPENAI_API_KEY"] = None

\* init() has called set_default_model in the running call
AfterModel == pc \in {"history", "tabcomplete", "tools"}

\* C10 (as stated): the default model is the explicit argument if supplied,
\* else the config MODEL if present, else the recommended default of the
\* provider resolved in this run.
C10_ModelPrecedence ==
    AfterModel =>
        default_model =
            IF Truthy(args.model) THEN args.model
            ELSE IF config["env.MODEL"] # None THEN config["env.MODEL"]
            ELSE Some(get_recommended_model(Val(provider)))

\* C10 (amended): the default model is the explicit argument if supplied, else
\* the config MODEL if present and non-empty, else the recommended default of
\* the provider resolved in this run; model selection always sets a model.
C10_ModelPrecedenceNonEmpty ==
    /\ AfterModel =>
          /\ default_model =
                IF Truthy(args.model) THEN args.model
                ELSE IF Truthy(config["env.MODEL"]) THEN config["env.MODEL"]
                ELSE Some(get_recommended_model(Val(provider)))
          /\ Truthy(default_model)
    /\ pc = "model" => ENABLED SetDefaultModel

C10_Witness ==
    /\ AfterModel
    /\ args.model = None
    /\ config["env.MODEL"] = Some("")
    /\ provider = Some("azure")
    /\ default_model = Some(get_recommended_model("azure"))

\* C11: initializing the history when the history file does not exist raises
\* no error and leaves the in-memory history equal to exactly the example
\* prompts, in order and with nothing else; when the file exists the examples
\* are not added.
C11_SeededWithExamplesOnly ==
    pc = "tabcomplete" =>
        IF file_exists
        THEN \A i \in 1..Len(history_examples) : ~Contains(history, history_examples[i])
        ELSE history = history_examples

\* an interactive init() has returned in this process
InteractiveInitDone ==
    Contains(trace, "_load_readline_history") /\ Contains(trace, "init_tools")

\* C12: after a successful interactive init() a normal exit writes the
\* then-current in-memory history to the history file exactly once (line by
\* line, the file cut to its last 100 lines unless it holds 101 lines of which
\* the first is empty); a kill writes nothing and leaves the file as it was;
\* the exit action is registered at most once per process, and never by a
\* non-interactive init().
C12_HistoryWrittenAtNormalExit ==
    [][ /\ (pc' = "exited" /\ InteractiveInitDone) =>
              /\ file_writes' = 1
              /\ file_exists'
              /\ LET written == history_lines(history)
                 IN file_lines' =
                       IF Len(written) = HistoryLength + 1 /\ written[1] = ""
                       THEN written
                       ELSE LastN(written, HistoryLength)
        /\ pc' = "killed" => UNCHANGED << file_exists, file_lines, file_writes >>
        /\ Len(atexit') <= 1
        /\ atexit' # atexit => (args.interactive /\ pc = "history")
        /\ (pc' = "tabcomplete") => atexit' = << "write_history_file" >> ]_vars

C12_Witness ==
    /\ pc = "exited"
    /\ InteractiveInitDone
    /\ file_writes = 1
    /\ n_inputs = MaxInputs
    /\ tty
    /\ Contains(history, InputText(1))
    /\ Len(history_lines(history)) > HistoryLength + 1
    /\ Len(file_lines) = HistoryLength
    /\ file_lines = LastN(history_lines(history), HistoryLength)

\* the events of the trace after its first n are all warnings
OnlyWarningsAfter(n) == \A i \in (n + 1)..Len(trace) : trace[i] = "warning"

\* C13: if the first call to init() fails partway, with the configuration
\* error or with the EOFError of a prompt at the end of the input, every later
\* call to init() in the process only warns: init() never sets up a provider,
\* a model or the history in that process (the history holds at most what a
\* prompt called from outside init() has read).
C13_NoRetryAfterFailure ==
    (Contains(trace, "ValueError") \/ Contains(trace, "EOFError")) =>
        /\ \/ /\ SubSeq(trace, 1, 3) = << "_init_done", "load_config", "ValueError" >>
              /\ OnlyWarningsAfter(3)
           \/ /\ SubSeq(trace, 1, 4) =
                    << "_init_done", "load_config", "ask_for_api_key", "EOFError" >>
              /\ OnlyWarningsAfter(4)
        /\ _init_done
        /\ pc \in {"idle", "exited", "killed"}
        /\ llm_provider = None
        /\ default_model = None
        /\ entered = << >>
        /\ \A i \in 1..Len(history) :
              \E j \in 1..Len(direct) :
                  direct[j] # None /\ history[i] = Str(Val(direct[j]))
        /\ history_length = -1
        /\ atexit = << >>
        /\ file_writes = 0

C13_Witness ==
    /\ trace = << "_init_done", "load_config", "ValueError", "warning" >>
    /\ pc = "exited"
    /\ llm_provider = None

\* the number of times event e is in the trace t
RECURSIVE Count(_, _)
Count(t, e) ==
    IF t = << >> THEN 0 ELSE (IF Head(t) = e THEN 1 ELSE 0) + Count(Tail(t), e)

\* the keys of Config whose value differs between two stores
ChangedKeys(a, b) == {k \in ConfigKeys : a[k] # b[k]}

\* what C14 says of every step of init() but the prompt's own: Config changes
\* at the prompt only, by one write to env.OPENAI_API_KEY or
\* env.ANTHROPIC_API_KEY; the prompt is reached only when interactive is true
\* and there is no explicit provider, no config PROVIDER and no stored
\* credential; a run that does not take the prompt leaves Config unchanged.
C14_OnlyThePromptWrites ==
    /\ (InCall /\ (config_store' # config_store
                     \/ Count(trace', "set_config_value") # Count(trace, "set_config_value"))) =>
          /\ pc = "prompt"
          /\ Count(trace', "set_config_value") = 1
          /\ Count(trace', "ask_for_api_key") = 1
          /\ ChangedKeys(config_store, config_store') \in
                {{}, {"env.OPENAI_API_KEY"}, {"env.ANTHROPIC_API_KEY"}}
    /\ pc' = "prompt" =>
          /\ args'.interactive
          /\ ~Truthy(args'.provider)
          /\ ~Truthy(config'["env.PROVIDER"])
          /\ ~Truthy(config'["env.OPENAI_API_KEY"])
          /\ ~Truthy(config'["env.ANTHROPIC_API_KEY"])
          /\ config' = config_store'
    /\ (pc' = "idle" /\ pc = "tools" /\ entered = << >>) =>
          (config_store' = config /\ Count(trace', "set_config_value") = 0)

\* C14 (as stated): init() changes Config only through the credential prompt:
\* a run that resolves the provider from the argument, the config PROVIDER or
\* a stored credential leaves Config unchanged; a run that takes the prompt
\* writes Config exactly once, to env.OPENAI_API_KEY or env.ANTHROPIC_API_KEY
\* only.  The prompt is taken only when interactive is true and there is no
\* explicit provider, no config PROVIDER and no stored credential.
C14_PromptWritesExactlyOnce ==
    [][ /\ C14_OnlyThePromptWrites
        /\ (pc = "prompt" /\ pc' # "killed") =>
              Count(trace', "set_config_value") = Count(trace, "set_config_value") + 1 ]_vars

\* C14 (amended): as stated, but a run that takes the prompt writes Config
\* exactly once when the prompt reads a line, and not at all when the prompt
\* meets the end of the input: init() then ends with EOFError.
C14_ConfigWrittenOnlyByPrompt ==
    [][ /\ C14_OnlyThePromptWrites
        /\ (pc = "prompt" /\ pc' # "killed") =>
              IF entered' # entered
              THEN /\ Count(trace', "set_config_value")
                         = Count(trace, "set_config_value") + 1
                   /\ pc' = "check"
              ELSE /\ config_store' = config_store
                   /\ Count(trace', "set_config_value") = 0
                   /\ Last(trace') = "EOFError"
                   /\ pc' = "idle" ]_vars

C14_Witness ==
    /\ pc = "check"
    /\ Count(trace, "set_config_value") = 1
    /\ ChangedKeys(config, config_store) = {"env.ANTHROPIC_API_KEY"}
    /\ config_store["env.ANTHROPIC_API_KEY"] = Some("sk-ant-a")

\* C15: whenever init_llm is invoked the provider it receives is one of
\* openai, anthropic, azure, local, whatever non-empty value is stored under
\* config PROVIDER; and the provider is resolved at most once per process.
C15_ProviderInClosedSet ==
    /\ llm_provider # None => Val(llm_provider) \in PROVIDERS
    /\ Count(trace, "init_llm") <= 1

\* the calls a first call to init() makes when it resolves a provider
ExpectedCalls(interactive, prompted) ==
    << "_init_done", "load_config" >>
    \o (IF prompted THEN << "ask_for_api_key", "set_config_value" >> ELSE << >>)
    \o << "init_llm", "set_default_model" >>
    \o (IF interactive THEN << "_load_readline_history", "register_tabcomplete" >> ELSE << >>)
    \o << "init_tools" >>

\* C16: a first call to init() that resolves a provider sets the flag, loads
\* the config, resolves the provider, calls init_llm, selects the model, then
\* (only if interactive) initializes the history and registers tab-completion,
\* then initializes the tools: in this order, each exactly once.
C16_StepsInOrder ==
    [][ /\ pc' = "resolve" =>
              (_init_done' /\ trace' = << "_init_done", "load_config" >>)
        /\ (pc = "init_llm" /\ pc' # "killed") =>
              (llm_provider' = provider /\ Count(trace, "init_llm") = 0)
        /\ (pc = "tools" /\ pc' = "idle") =>
              trace' = ExpectedCalls(args.interactive, entered # << >>)
        /\ (pc' = "idle" /\ Contains(trace', "init_llm")) =>
              /\ Count(trace', "init_tools") = 1
              /\ Count(trace', "register_tabcomplete")
                    = Count(trace', "_load_readline_history")
              /\ Count(trace', "_load_readline_history") <= 1 ]_vars

C16_Witness ==
    /\ pc = "idle"
    /\ trace = ExpectedCalls(TRUE, TRUE)

\* what the prompt did with the key it took from the line it read: the value
\* it wrote to Config and the provider it returned
C17_PromptWrote(key) ==
    /\ config_store["env." \o env_var_of(key)] = Some(Str(key))
    /\ provider = Some(classify(key))

\* C17 (as stated): the value the prompt writes to Config is exactly the line
\* the user entered, leading and trailing whitespace included, the prefix
\* classification is applied to that unmodified line, and the prompt is never
\* repeated.
C17_LineAcceptedAsIs ==
    /\ (pc = "check" /\ entered # << >>) => C17_PromptWrote(Last(entered))
    /\ Len(entered) <= 1

\* C17 (amended): the value the prompt writes to Config is the line the user
\* entered with its leading and trailing whitespace removed, the prefix
\* classification is applied to that stripped line, and the prompt is never
\* repeated: a call of the prompt reads one line at most.
C17_LineAcceptedStripped ==
    /\ (pc = "check" /\ entered # << >>) => C17_PromptWrote(strip(Last(entered)))
    /\ Len(entered) <= 1
    /\ Len(entered) <= Count(trace, "ask_for_api_key")
    /\ Count(trace, "ask_for_api_key") <= 1

C17_Witness ==
    /\ pc = "check"
    /\ entered = << << " ", "\\x0b" >> >>
    /\ config_store["env.OPENAI_API_KEY"] = Some("")
    /\ provider = Some("openai")

\* C18: with interactive=true init() never raises the configuration error:
\* whatever line is entered the prompt returns a provider and init goes on to
\* init_llm; init() invokes the prompt at most once in the life of the
\* process.
C18_InteractiveNeverFails ==
    [][ /\ Count(trace', "ValueError") > Count(trace, "ValueError") => ~args.interactive
        /\ (pc = "prompt" /\ entered' # entered) =>
              (pc' = "check" /\ provider' \in {Some("openai"), Some("anthropic")})
        /\ (pc = "check" /\ args.interactive /\ pc' # "killed") => pc' = "init_llm"
        /\ Count(trace', "ask_for_api_key") <= 1 ]_vars

C18_Witness ==
    /\ pc = "init_llm"
    /\ args.interactive
    /\ entered = << << >> >>
    /\ provider = Some("openai")

\* C19: every call to init() eventually finishes, by returning or by raising
\* the configuration error, provided a line of input becomes available when
\* the prompt is reached (a prompt that meets the end of the input instead
\* ends the call too, with EOFError); a non-interactive call never waits for
\* input, and the prompt's line read is the only point at which init() can
\* wait.
C19_InitTerminates ==
    /\ [](pc = "prompt" => args.interactive)
    /\ []((InCall /\ pc # "prompt") => ENABLED Statement)
    /\ [][ (InCall /\ pc' = "idle") =>
              /\ Last(trace') \in {"init_tools", "ValueError", "EOFError"}
              /\ Last(trace') = "EOFError" <=> (pc = "prompt" /\ entered' = entered) ]_vars
    /\ (InCall ~> (pc \in {"idle", "exited", "killed"}))

C19_Witness ==
    /\ pc = "idle"
    /\ calls = 1
    /\ entered # << >>
    /\ Last(trace) = "init_tools"

====
